---- MODULE Spec2Model ----
(***************************************************************************)
(* Model of generate_html.py: extraction of a Record from the text of a    *)
(* test report, rendering of the detail and index pages, and the main      *)
(* loop over the report files of the batch directory.                      *)
(*                                                                         *)
(* A report text is a sequence of items, one per line shape the regular    *)
(* expressions of extract_test_info look for.  A Python dict is a function *)
(* whose domain is the set of keys present.  Durations are fixed-point     *)
(* numbers counted in 1/Scale of a second.                                 *)
(***************************************************************************)
EXTENDS Integers, Sequences, FiniteSets, TLC

VARIABLES batch_dir, output_dir, now, pc, run, test_files, idx, md_content,
          test_info, tests, exc, writes, extracted, run_days,
          prev_output, prev_done, prev_days

vars == <<batch_dir, output_dir, now, pc, run, test_files, idx, md_content,
          test_info, tests, exc, writes, extracted, run_days,
          prev_output, prev_done, prev_days>>

----------------------------------------------------------------------------
(* Bounds of the model *)

MaxSteps == 2
MaxFiles == 2
MaxRuns == 2
MaxClock == 2
TicksPerDay == 2

----------------------------------------------------------------------------
(* Python dict helpers *)

EmptyDict == [k \in {} |-> 0]

Get(d, k, default) == IF k \in DOMAIN d THEN d[k] ELSE default

Put(d, k, v) == [x \in (DOMAIN d) \cup {k} |-> IF x = k THEN v ELSE d[x]]

----------------------------------------------------------------------------
(* Static lookup tables *)

TEST_NAMES_HEB ==
    [k \in {"Chanukah_Light_Miracle", "Honesty_Truth_Teen", "Talmud_Wisdom_Stories",
            "Environment_Jewish_View", "Teamwork_Games", "Purim_Hidden_Revealed",
            "Sukkot_Joy_Hospitality", "Kibud_Av_VaEm", "Jewish_Heroes_Stories",
            "Leadership_Challenge"} |->
        CASE k = "Chanukah_Light_Miracle" -> "heb: Chanukah - nes ha-or"
          [] k = "Honesty_Truth_Teen" -> "heb: emet ve-yosher la-noar"
          [] k = "Talmud_Wisdom_Stories" -> "heb: sipurei chochma me-ha-talmud"
          [] k = "Environment_Jewish_View" -> "heb: eichut ha-sviva"
          [] k = "Teamwork_Games" -> "heb: mischakei avodat tzevet"
          [] k = "Purim_Hidden_Revealed" -> "heb: Purim - ha-nistar ve-ha-nigle"
          [] k = "Sukkot_Joy_Hospitality" -> "heb: Sukkot - simcha"
          [] k = "Kibud_Av_VaEm" -> "heb: kibud av va-em"
          [] k = "Jewish_Heroes_Stories" -> "heb: sipurei gvura yehudit"
          [] OTHER -> "heb: etgar manhigut"]

ACTIVITY_TYPES_HEB ==
    [k \in {"religious_holiday", "values_education", "story_session",
            "discussion", "game_based", "combined"} |->
        CASE k = "religious_holiday" -> "heb: chag dati"
          [] k = "values_education" -> "heb: chinuch erki"
          [] k = "story_session" -> "heb: mifgash sipurim"
          [] k = "discussion" -> "heb: diyun"
          [] k = "game_based" -> "heb: mischakim"
          [] OTHER -> "heb: meshulav"]

AGE_GROUPS_HEB ==
    [k \in {"middle", "teen"} |->
        IF k = "middle" THEN "heb: beinoni (10-13)" ELSE "heb: noar (14-16)"]

----------------------------------------------------------------------------
(* Items of a report text *)

Title(n)    == [k |-> "title", v |-> n]        \* "# E2E Test Report: <n>"
ModelRow(m) == [k |-> "model", v |-> m]        \* "| model | <m> |"
Request(r)  == [k |-> "request", v |-> r]      \* "**User Request:** <r>"
JsonBlock(c) == [k |-> "json", v |-> c]        \* "```json\n{" c "}\n```"
FinalHeading == [k |-> "final", v |-> ""]      \* "## Final Output\n\n"
MdOpen      == [k |-> "mdopen", v |-> ""]      \* "```markdown\n"
Fence       == [k |-> "fence", v |-> ""]       \* "```"
Heading2(t) == [k |-> "h2", v |-> t]           \* "\n## <t>"
Blank       == [k |-> "blank", v |-> ""]       \* an empty line
Line(t)     == [k |-> "line", v |-> t]         \* any other line
StepLine(n) == [k |-> "step", v |-> n]         \* "STEP: <n>\n"
DurationOf(tok) == [k |-> "dur", v |-> tok]    \* "Duration: <tok>s"
ResultOf(r) == [k |-> "res", v |-> r]          \* "Result: <r>"

(* First index i >= from with s[i].k in kinds, 0 if there is none *)
FirstKind(s, from, kinds) ==
    LET hits == {i \in from..Len(s) : s[i].k \in kinds}
    IN  IF hits = {} THEN 0 ELSE CHOOSE i \in hits : \A j \in hits : i <= j

----------------------------------------------------------------------------
(* float(): a token of digits and dots is a number when it has one dot at  *)
(* most and one digit at least; its value is counted in 1/Scale seconds.   *)

Scale == 100

Digits == {"0", "1", "2", "3", "4", "5", "6", "7", "8", "9"}

DigitVal(c) ==
    CASE c = "0" -> 0 [] c = "1" -> 1 [] c = "2" -> 2 [] c = "3" -> 3
      [] c = "4" -> 4 [] c = "5" -> 5 [] c = "6" -> 6 [] c = "7" -> 7
      [] c = "8" -> 8 [] OTHER -> 9

RECURSIVE IntOf(_)
IntOf(ds) == IF ds = <<>> THEN 0
             ELSE 10 * IntOf(SubSeq(ds, 1, Len(ds) - 1)) + DigitVal(ds[Len(ds)])

(* [\d.]+ followed by "s": the whole token is made of digits and dots *)
MatchesDigitsDots(tok) ==
    /\ Len(tok) > 0
    /\ \A i \in 1..Len(tok) : tok[i] \in Digits \cup {"."}

FloatOk(tok) ==
    /\ MatchesDigitsDots(tok)
    /\ Cardinality({i \in 1..Len(tok) : tok[i] = "."}) <= 1
    /\ \E i \in 1..Len(tok) : tok[i] \in Digits

FloatValue(tok) ==
    LET dot  == FirstKind([i \in 1..Len(tok) |-> [k |-> tok[i]]], 1, {"."})
        ip   == IF dot = 0 THEN tok ELSE SubSeq(tok, 1, dot - 1)
        fp   == IF dot = 0 THEN <<>> ELSE SubSeq(tok, dot + 1, Len(tok))
        d1   == IF Len(fp) >= 1 /\ fp[1] \in Digits THEN DigitVal(fp[1]) ELSE 0
        d2   == IF Len(fp) >= 2 /\ fp[2] \in Digits THEN DigitVal(fp[2]) ELSE 0
    IN  IntOf(SelectSeq(ip, LAMBDA c : c \in Digits)) * Scale + 10 * d1 + d2

----------------------------------------------------------------------------
(* json.loads on the text between the braces of the fenced block: a        *)
(* sequence of members and commas.  It is an object when members and       *)
(* commas alternate, starting and ending with a member (or it is empty).   *)

Member(key, val) == [t |-> "member", key |-> key, val |-> val]
Comma == [t |-> "comma", key |-> "", val |-> ""]

JsonValid(c) ==
    \/ c = <<>>
    \/ /\ Len(c) % 2 = 1
       /\ \A i \in 1..Len(c) : c[i].t = (IF i % 2 = 1 THEN "member" ELSE "comma")

(* the dict of a valid object: of two members with one key the later wins *)
JsonObject(c) ==
    LET ms   == {i \in 1..Len(c) : c[i].t = "member"}
        keys == {c[i].key : i \in ms}
        last(key) == CHOOSE i \in ms : c[i].key = key /\ \A j \in ms : c[j].key = key => j <= i
    IN  [key \in keys |-> c[last(key)].val]

json_loads(c) == IF JsonValid(c) THEN [ok |-> TRUE, obj |-> JsonObject(c)]
                 ELSE [ok |-> FALSE, obj |-> EmptyDict]

----------------------------------------------------------------------------
(* extract_test_info *)

(* re.search(r'# E2E Test Report: (\w+)'): the first title line *)
TitleFields(md) ==
    LET i == FirstKind(md, 1, {"title"})
    IN  IF i = 0 THEN EmptyDict
        ELSE [f \in {"name", "name_heb"} |->
                IF f = "name" THEN md[i].v ELSE Get(TEST_NAMES_HEB, md[i].v, md[i].v)]

(* re.search(r'\| model \| (.+?) \|') *)
ModelFields(md) ==
    LET i == FirstKind(md, 1, {"model"})
    IN  IF i = 0 THEN EmptyDict ELSE [f \in {"model"} |-> md[i].v]

(* re.search(r'\*\*User Request:\*\* (.+)') *)
RequestFields(md) ==
    LET i == FirstKind(md, 1, {"request"})
    IN  IF i = 0 THEN EmptyDict ELSE [f \in {"user_request"} |-> md[i].v]

(* a variant of ActivityFields that stores an empty dict when parsing fails *)
ActivityFieldsEmptyOnError(md) ==
    LET i == FirstKind(md, 1, {"json"})
    IN  IF i = 0 THEN EmptyDict
        ELSE [f \in {"activity_details"} |-> json_loads(md[i].v).obj]

(* the first fenced json block; try json.loads, except: pass *)
ActivityFields(md) ==
    LET i == FirstKind(md, 1, {"json"})
    IN  IF i = 0 THEN EmptyDict
        ELSE IF json_loads(md[i].v).ok
             THEN [f \in {"activity_details"} |-> json_loads(md[i].v).obj]
             ELSE EmptyDict

(* str.strip(): leading and trailing empty lines are dropped *)
RECURSIVE Strip(_)
Strip(body) ==
    IF body = <<>> THEN <<>>
    ELSE IF body[1].k = "blank" THEN Strip(Tail(body))
    ELSE IF body[Len(body)].k = "blank" THEN Strip(SubSeq(body, 1, Len(body) - 1))
    ELSE body

(* items whose text holds a ``` fence / starts a "## " heading on a new line *)
FenceKinds == {"fence", "mdopen", "json"}
HeadingKinds == {"h2", "final"}

(* r'## Final Output\n\n```markdown\n([\s\S]+?)```' and, when that does not   *)
(* match, r'## Final Output\n\n([\s\S]+?)(?=\n## |$)'                          *)
FinalFields(md) ==
    LET fenced == {i \in 1..Len(md) : /\ md[i].k = "final"
                                      /\ i + 1 <= Len(md) /\ md[i + 1].k = "mdopen"
                                      /\ FirstKind(md, i + 3, FenceKinds) # 0}
        plain  == {i \in 1..Len(md) : md[i].k = "final" /\ i + 1 <= Len(md)}
        first(S) == CHOOSE i \in S : \A j \in S : i <= j
    IN  IF fenced # {}
        THEN LET i == first(fenced)
                 j == FirstKind(md, i + 3, FenceKinds)
             IN  [f \in {"final_output"} |-> Strip(SubSeq(md, i + 2, j - 1))]
        ELSE IF plain # {}
        THEN LET i == first(plain)
                 j == FirstKind(md, i + 2, HeadingKinds)
                 e == IF j = 0 THEN Len(md) ELSE j - 1
             IN  [f \in {"final_output"} |-> Strip(SubSeq(md, i + 1, e))]
        ELSE EmptyDict

(* a variant of StepMatches with greedy .* in place of .*?: one match, from *)
(* the first step line to the last duration and the last result            *)
StepMatchesGreedy(md, pos) ==
    LET i == FirstKind(md, pos, {"step"})
        ress == IF i = 0 THEN {} ELSE {r \in (i + 2)..Len(md) : md[r].k = "res"}
        r == IF ress = {} THEN 0 ELSE CHOOSE x \in ress : \A y \in ress : y <= x
        durs == {d \in (i + 1)..(r - 1) : md[d].k = "dur" /\ MatchesDigitsDots(md[d].v)}
        d == IF durs = {} THEN 0 ELSE CHOOSE x \in durs : \A y \in durs : y <= x
    IN  IF d = 0 THEN <<>>
        ELSE <<[name |-> md[i].v, tok |-> md[d].v, status |-> md[r].v]>>

(* re.finditer(r'STEP: (.+?)\n.*?Duration: ([\d.]+)s.*?Result: (\w+)', DOTALL)  *)
(* from position pos on: the first step line, the first duration after it      *)
(* whose token is made of digits and dots, the first result after that; the    *)
(* next match is looked for after the result.  float() raises ValueError on    *)
(* a token that is no number, and the exception leaves extract_test_info.      *)
RECURSIVE StepMatches(_, _)
StepMatches(md, pos) ==
    LET i == FirstKind(md, pos, {"step"})
        durs == IF i = 0 THEN {}
                ELSE {d \in (i + 1)..Len(md) : md[d].k = "dur" /\ MatchesDigitsDots(md[d].v)}
        d == IF durs = {} THEN 0 ELSE CHOOSE x \in durs : \A y \in durs : x <= y
        r == IF d = 0 THEN 0 ELSE FirstKind(md, d + 1, {"res"})
    IN  IF r = 0 THEN <<>>
        ELSE <<[name |-> md[i].v, tok |-> md[d].v, status |-> md[r].v]>>
             \o StepMatches(md, r + 1)

RECURSIVE SumDurations(_)
SumDurations(steps) ==
    IF steps = <<>> THEN 0 ELSE steps[1].duration + SumDurations(Tail(steps))

(* a variant of TotalDuration that keeps the last duration instead of adding *)
TotalDurationLast(steps) == IF steps # <<>> THEN steps[Len(steps)].duration ELSE 0

TotalDuration(steps) == IF steps # <<>> THEN SumDurations(steps) ELSE 0

StepsFields(md) ==
    LET ms == StepMatches(md, 1)
        steps == [n \in 1..Len(ms) |->
                    [name |-> ms[n].name, duration |-> FloatValue(ms[n].tok),
                     status |-> ms[n].status]]
    IN  [f \in {"steps", "total_duration"} |->
            IF f = "steps" THEN steps ELSE TotalDuration(steps)]

StepsRaise(md) ==
    \E n \in 1..Len(StepMatches(md, 1)) : ~FloatOk(StepMatches(md, 1)[n].tok)

(* the outcome of a call: the exception that leaves it, or the dict returned *)
extract_test_info(md) ==
    IF StepsRaise(md)
    THEN [exc |-> "ValueError", info |-> EmptyDict]
    ELSE [exc |-> "none",
          info |-> TitleFields(md) @@ ModelFields(md) @@ RequestFields(md)
                   @@ ActivityFields(md) @@ FinalFields(md) @@ StepsFields(md)]

----------------------------------------------------------------------------
(* Rendering *)

(* a variant of Strftime that prints the time of day as well *)
StrftimeWithTime(t) == t

(* datetime.now().strftime("%d/%m/%Y"): the calendar day of the clock *)
Strftime(t) == t \div TicksPerDay

(* f'{x:.1f}' of a duration in seconds: tenths of a second *)
FormatSeconds(d) == (10 * d + (Scale \div 2)) \div Scale

(* f'{x/60:.1f}' of a duration in seconds: tenths of a minute *)
FormatMinutes(d) == (10 * d + 30 * Scale) \div (60 * Scale)

(* HTML_TEMPLATE.format(title=..., content=..., date=...) *)
HTML_TEMPLATE(title, content, date) ==
    [title |-> title, content |-> content, date |-> date]

DisplayName(test) == Get(test, "name_heb", Get(test, "name", "Unknown"))

(* file stem + ".html" *)
PageName(stem) == stem \o <<".", "html">>

IndexName == <<"index", ".", "html">>

IndexRow(test) ==
    LET details == Get(test, "activity_details", EmptyDict)
        activity_type == Get(details, "activity_type", "")
        age_group == Get(details, "age_group", "")
    IN  [href |-> PageName(test["filename"]),
         status_class |-> IF Get(test, "status", "") = "PASS" THEN "pass" ELSE "fail",
         status_icon |-> IF Get(test, "status", "") = "PASS" THEN "check" ELSE "cross",
         name |-> DisplayName(test),
         activity_type_heb |-> Get(ACTIVITY_TYPES_HEB, activity_type, activity_type),
         age_group_heb |-> Get(AGE_GROUPS_HEB, age_group, age_group),
         duration_min |-> Get(details, "duration_minutes", 0),
         duration |-> FormatMinutes(Get(test, "total_duration", 0))]

RECURSIVE SumTotals(_)
SumTotals(ts) ==
    IF ts = <<>> THEN 0 ELSE Get(ts[1], "total_duration", 0) + SumTotals(Tail(ts))

(* a variant of CountPassed that counts the distinct statuses that are PASS *)
CountPassedStatuses(ts) ==
    Cardinality({Get(ts[i], "status", "") : i \in {j \in 1..Len(ts) : Get(ts[j], "status", "") = "PASS"}})

CountPassed(ts) == Cardinality({i \in 1..Len(ts) : Get(ts[i], "status", "") = "PASS"})

generate_index_html(ts, t) ==
    LET total == Len(ts)
        passed == CountPassed(ts)
        failed == total - passed
        total_time == SumTotals(ts)
    IN  HTML_TEMPLATE("index",
                      [total |-> total, passed |-> passed, failed |-> failed,
                       total_time |-> FormatMinutes(total_time),
                       rows |-> [i \in 1..Len(ts) |-> IndexRow(ts[i])]],
                      Strftime(t))

(* markdown.markdown(final_output, ...): the library's rendering of the text; *)
(* an empty final output gives the placeholder paragraph                       *)
FinalOutputHtml(test) ==
    LET final_output == Get(test, "final_output", <<>>)
    IN  IF final_output # <<>> THEN [kind |-> "markdown", of |-> final_output]
        ELSE [kind |-> "placeholder", of |-> <<>>]

StepRow(step) ==
    [name |-> step.name,
     duration |-> FormatSeconds(step.duration),
     badge |-> IF step.status = "SUCCESS" THEN "badge-success" ELSE "badge-danger"]

generate_test_html(test, t) ==
    LET details == Get(test, "activity_details", EmptyDict)
        steps == Get(test, "steps", <<>>)
    IN  HTML_TEMPLATE(DisplayName(test),
                      [name |-> DisplayName(test),
                       user_request |-> Get(test, "user_request", ""),
                       activity_type_heb |->
                           Get(ACTIVITY_TYPES_HEB, Get(details, "activity_type", ""), ""),
                       age_group_heb |->
                           Get(AGE_GROUPS_HEB, Get(details, "age_group", ""), ""),
                       duration_minutes |-> Get(details, "duration_minutes", 0),
                       main_topic |-> Get(details, "main_topic", ""),
                       main_values |-> Get(details, "main_values", <<>>),
                       closing |-> Get(details, "closing_message_theme", ""),
                       steps |-> [i \in 1..Len(steps) |-> StepRow(steps[i])],
                       total |-> FormatMinutes(Get(test, "total_duration", 0)),
                       final_output_html |-> FinalOutputHtml(test)],
                      Strftime(t))

----------------------------------------------------------------------------
(* File names: sequences of name parts, no part a prefix of another, so the *)
(* order of two names is decided at the first part in which they differ.    *)

PartRank(p) ==
    CASE p = "." -> 1 [] p = "a" -> 2 [] p = "b" -> 3 [] p = "html" -> 4
      [] p = "index" -> 5 [] p = "md" -> 6 [] p = "test_" -> 7 [] OTHER -> 8

NameLess(a, b) ==
    \E i \in 1..(Len(a) + 1) :
        /\ i <= Len(b)
        /\ \A j \in 1..(i - 1) : j <= Len(a) /\ a[j] = b[j]
        /\ (i = Len(a) + 1 \/ PartRank(a[i]) < PartRank(b[i]))

(* Path.glob("test_*.md") *)
GlobMatches(name) ==
    /\ Len(name) >= 3
    /\ name[1] = "test_"
    /\ name[Len(name) - 1] = "."
    /\ name[Len(name)] = "md"

(* a variant of Stem that cuts the name at its first dot *)
StemFirstDot(name) ==
    LET dots == {i \in 2..Len(name) : name[i] = "."}
    IN  IF dots = {} THEN name
        ELSE SubSeq(name, 1, (CHOOSE i \in dots : \A j \in dots : i <= j) - 1)

(* Path.stem: the name without its last suffix *)
Stem(name) ==
    LET dots == {i \in 2..Len(name) : name[i] = "."}
    IN  IF dots = {} THEN name
        ELSE SubSeq(name, 1, (CHOOSE i \in dots : \A j \in dots : j <= i) - 1)

(* a variant of Sorted that lists the names in descending order *)
RECURSIVE SortedDescending(_)
SortedDescending(S) ==
    IF S = {} THEN <<>>
    ELSE LET m == CHOOSE x \in S : \A y \in S \ {x} : NameLess(y, x)
         IN  <<m>> \o SortedDescending(S \ {m})

(* sorted(BATCH_DIR.glob("test_*.md")) *)
RECURSIVE Sorted(_)
Sorted(S) ==
    IF S = {} THEN <<>>
    ELSE LET m == CHOOSE x \in S : \A y \in S \ {x} : NameLess(x, y)
         IN  <<m>> \o Sorted(S \ {m})

(* Path.read_text(encoding='utf-8'): a str with one element per character, *)
(* whatever the number of bytes the character takes in the file            *)
ReadText(file) == [items |-> file.items, len |-> file.narrow + file.wide]

(* the size of the file in bytes: a wide character takes two bytes in UTF-8 *)
ByteSize(file) == file.narrow + 2 * file.wide

SizeThreshold == 10000

StatusOf(md) == IF md.len > SizeThreshold THEN "PASS" ELSE "FAIL"

----------------------------------------------------------------------------
(* Inputs: the report texts and the batch directories the model explores *)

Entry(name, tok, status, shape) ==
    [name |-> name, tok |-> tok, status |-> status, shape |-> shape]

(* the text of a step entry: complete ("full", or "noisy" with other lines *)
(* between its parts), or lacking its duration or its result               *)
EntryText(e) ==
    CASE e.shape = "full"  -> <<StepLine(e.name), DurationOf(e.tok), ResultOf(e.status)>>
      [] e.shape = "noisy" -> <<StepLine(e.name), Line("log"), DurationOf(e.tok),
                                Blank, ResultOf(e.status)>>
      [] e.shape = "nodur" -> <<StepLine(e.name), ResultOf(e.status)>>
      [] OTHER             -> <<StepLine(e.name), DurationOf(e.tok)>>

RECURSIVE EntriesText(_)
EntriesText(es) == IF es = <<>> THEN <<>> ELSE EntryText(es[1]) \o EntriesText(Tail(es))

Entries ==
    { Entry("A", <<"1", ".", "5">>, "SUCCESS", "full"),
      Entry("B", <<"2", ".", "5">>, "FAILED", "noisy"),
      Entry("C", <<".", "2", "5">>, "SUCCESS", "full"),
      Entry("D", <<"1", ".", "2", ".", "3">>, "SUCCESS", "full"),
      Entry("E", <<"-", "1">>, "SUCCESS", "full"),
      Entry("F", <<"3">>, "SUCCESS", "nores"),
      Entry("G", <<"3">>, "FAILED", "nodur") }

EntrySeqs == UNION {[1..n -> Entries] : n \in 0..MaxSteps}

GoodJson == <<Member("activity_type", "discussion"), Comma, Member("age_group", "teen"),
              Comma, Member("duration_minutes", 45)>>
OtherJson == <<Member("activity_type", "workshop"), Comma, Member("age_group", "adult"),
               Comma, Member("main_topic", "topic")>>
BadJson == <<Member("activity_type", "discussion"), Comma>>

Headers ==
    { <<>>,
      <<Title("Teamwork_Games"), ModelRow("opus"), Request("a game")>>,
      <<Title("Sample_Test"), Title("Teamwork_Games")>> }

JsonParts ==
    { <<>>, <<JsonBlock(GoodJson)>>, <<JsonBlock(BadJson)>>,
      <<JsonBlock(BadJson), JsonBlock(OtherJson)>> }

FinalParts ==
    { <<>>,
      <<FinalHeading, MdOpen, Line("Hello"), Blank, Fence>>,
      <<FinalHeading, Blank, Line("Hello"), Heading2("Log")>>,
      <<FinalHeading>> }

(* a file: the items of its text, the step entries the text was written   *)
(* from, and its numbers of one-byte and of two-byte characters           *)
File(h, j, f, es, narrow, wide) ==
    [items |-> h \o j \o f \o EntriesText(es), json |-> j, entries |-> es,
     narrow |-> narrow, wide |-> wide]

Texts == { File(h, j, f, es, 12000, 0) :
             h \in Headers, j \in JsonParts, f \in FinalParts, es \in EntrySeqs }

Known == <<Title("Teamwork_Games"), ModelRow("opus"), Request("a game")>>
Sample == <<Title("Sample_Test"), Title("Teamwork_Games")>>
Fenced == <<FinalHeading, MdOpen, Line("Hello"), Blank, Fence>>
TwoSteps == <<Entry("A", <<"1", ".", "5">>, "SUCCESS", "full"),
              Entry("B", <<"2", ".", "5">>, "FAILED", "noisy")>>
BadStep == <<Entry("D", <<"1", ".", "2", ".", "3">>, "SUCCESS", "full")>>

Contents ==
    { File(Known, <<JsonBlock(GoodJson)>>, Fenced, TwoSteps, 12000, 0),
      File(Sample, <<JsonBlock(OtherJson)>>, <<>>, <<>>, 2000, 5000),
      File(Known, <<JsonBlock(BadJson)>>, <<>>, <<>>, 10000, 0),
      File(<<>>, <<>>, <<>>, <<>>, 1, 10000),
      File(Sample, <<>>, Fenced, BadStep, 10001, 0) }

FileNames ==
    { <<"test_", "a", ".", "md">>, <<"test_", "b", ".", "md">>,
      <<"test_", "a", ".", "b", ".", "md">>, <<"index", ".", "md">>,
      <<"test_", "a", ".", "txt">> }

(* a batch directory: at most MaxFiles files; the text of a file that      *)
(* test_*.md does not match is never read, and is the same in all of them *)
Unread == File(<<>>, <<>>, <<>>, <<>>, 1, 10000)

Directories ==
    UNION { { d \in [D -> Contents] : \A f \in D : ~GlobMatches(f) => d[f] = Unread } :
            D \in {D \in SUBSET FileNames : Cardinality(D) <= MaxFiles} }

----------------------------------------------------------------------------
(* main *)

NoInfo == [none |-> TRUE]
NoText == [items |-> <<>>, len |-> 0]

CurrentFile == test_files[idx]

Day(t) == t \div TicksPerDay

InitRun ==
    /\ pc = "start"
    /\ test_files = <<>>
    /\ idx = 0
    /\ md_content = NoText
    /\ test_info = NoInfo
    /\ tests = <<>>
    /\ exc = "none"
    /\ writes = <<>>
    /\ extracted = <<>>
    /\ run_days = {}

Init ==
    /\ batch_dir \in Directories
    /\ output_dir = EmptyDict
    /\ now = 0
    /\ run = 1
    /\ prev_output = EmptyDict
    /\ prev_done = FALSE
    /\ prev_days = {}
    /\ InitRun

(* OUTPUT_DIR.mkdir(exist_ok=True); test_files = sorted(glob); tests = [] *)
Start ==
    /\ pc = "start"
    /\ test_files' = Sorted({f \in DOMAIN batch_dir : GlobMatches(f)})
    /\ tests' = <<>>
    /\ idx' = 1
    /\ pc' = IF test_files' = <<>> THEN "index" ELSE "read"
    /\ UNCHANGED <<batch_dir, output_dir, now, run, md_content, test_info, exc,
                   writes, extracted, run_days, prev_output, prev_done, prev_days>>

(* md_content = test_file.read_text(); test_info = extract_test_info(md_content) *)
ReadFile ==
    /\ pc = "read"
    /\ md_content' = ReadText(batch_dir[CurrentFile])
    /\ LET r == extract_test_info(md_content'.items)
       IN  IF r.exc # "none"
           THEN /\ exc' = r.exc
                /\ pc' = "aborted"
                /\ UNCHANGED <<test_info, extracted>>
           ELSE /\ test_info' = r.info
                /\ extracted' = Append(extracted, r.info)
                /\ pc' = "annotate"
                /\ exc' = exc
    /\ UNCHANGED <<batch_dir, output_dir, now, run, test_files, idx, tests,
                   writes, run_days, prev_output, prev_done, prev_days>>

(* read_text raises: the run ends *)
ReadFails ==
    /\ pc = "read"
    /\ exc' = "OSError"
    /\ pc' = "aborted"
    /\ UNCHANGED <<batch_dir, output_dir, now, run, test_files, idx, md_content,
                   test_info, tests, writes, extracted, run_days,
                   prev_output, prev_done, prev_days>>

(* test_info['filename'] = stem; test_info['status'] = ...; tests.append(test_info) *)
(* a variant of Annotated that also overwrites the name with the file stem *)
AnnotatedOverwritingName(info, stem, md) ==
    Put(Put(Put(info, "filename", stem), "status", StatusOf(md)), "name", stem)

Annotated(info, stem, md) == Put(Put(info, "filename", stem), "status", StatusOf(md))

Annotate ==
    /\ pc = "annotate"
    /\ test_info' = Annotated(test_info, Stem(CurrentFile), md_content)
    /\ tests' = Append(tests, test_info')
    /\ pc' = "write"
    /\ UNCHANGED <<batch_dir, output_dir, now, run, test_files, idx, md_content,
                   exc, writes, extracted, run_days, prev_output, prev_done, prev_days>>

(* the for loop goes to the next file, or ends *)
AfterFile == IF idx = Len(test_files) THEN "index" ELSE "read"

(* test_html = generate_test_html(test_info, md_content); output_file.write_text(...) *)
WriteDetail ==
    /\ pc = "write"
    /\ output_dir' = Put(output_dir, PageName(Stem(CurrentFile)),
                         generate_test_html(test_info, now))
    /\ writes' = Append(writes, PageName(Stem(CurrentFile)))
    /\ run_days' = run_days \cup {Day(now)}
    /\ idx' = idx + 1
    /\ pc' = AfterFile
    /\ UNCHANGED <<batch_dir, now, run, test_files, md_content, test_info, tests,
                   exc, extracted, prev_output, prev_done, prev_days>>

WriteDetailFails ==
    /\ pc = "write"
    /\ exc' = "OSError"
    /\ pc' = "aborted"
    /\ UNCHANGED <<batch_dir, output_dir, now, run, test_files, idx, md_content,
                   test_info, tests, writes, extracted, run_days,
                   prev_output, prev_done, prev_days>>

(* index_html = generate_index_html(tests); index_file.write_text(index_html) *)
WriteIndex ==
    /\ pc = "index"
    /\ output_dir' = Put(output_dir, IndexName, generate_index_html(tests, now))
    /\ writes' = Append(writes, IndexName)
    /\ run_days' = run_days \cup {Day(now)}
    /\ pc' = "done"
    /\ UNCHANGED <<batch_dir, now, run, test_files, idx, md_content, test_info,
                   tests, exc, extracted, prev_output, prev_done, prev_days>>

WriteIndexFails ==
    /\ pc = "index"
    /\ exc' = "OSError"
    /\ pc' = "aborted"
    /\ UNCHANGED <<batch_dir, output_dir, now, run, test_files, idx, md_content,
                   test_info, tests, writes, extracted, run_days,
                   prev_output, prev_done, prev_days>>

(* the clock of the machine advances *)
Tick ==
    /\ now < MaxClock
    /\ now' = now + 1
    /\ UNCHANGED <<batch_dir, output_dir, pc, run, test_files, idx, md_content,
                   test_info, tests, exc, writes, extracted, run_days,
                   prev_output, prev_done, prev_days>>

(* the script is run again on the same batch directory *)
Rerun ==
    /\ pc \in {"done", "aborted"}
    /\ run < MaxRuns
    /\ run' = run + 1
    /\ prev_output' = output_dir
    /\ prev_done' = (pc = "done")
    /\ prev_days' = run_days
    /\ pc' = "start"
    /\ test_files' = <<>>
    /\ idx' = 0
    /\ md_content' = NoText
    /\ test_info' = NoInfo
    /\ tests' = <<>>
    /\ exc' = "none"
    /\ writes' = <<>>
    /\ extracted' = <<>>
    /\ run_days' = {}
    /\ UNCHANGED <<batch_dir, output_dir, now>>

Next ==
    \/ Start
    \/ ReadFile
    \/ ReadFails
    \/ Annotate
    \/ WriteDetail
    \/ WriteDetailFails
    \/ WriteIndex
    \/ WriteIndexFails
    \/ Tick
    \/ Rerun

Spec == Init /\ [][Next]_vars

(* one run of main on one report file, the text drawn from Texts, with no *)
(* input/output failure: extraction and rendering as functions of the text *)
InitExtract ==
    /\ batch_dir \in {[n \in {<<"test_", "a", ".", "md">>} |-> c] : c \in Texts}
    /\ output_dir = EmptyDict
    /\ now = 0
    /\ run = 1
    /\ prev_output = EmptyDict
    /\ prev_done = FALSE
    /\ prev_days = {}
    /\ InitRun

NextExtract ==
    \/ Start
    \/ ReadFile
    \/ Annotate
    \/ WriteDetail
    \/ WriteIndex

SpecExtract == InitExtract /\ [][NextExtract]_vars

----------------------------------------------------------------------------
(* Properties *)

(* the report file of the current run that record i was extracted from *)
FileOf(i) == batch_dir[test_files[i]]

Matching == {f \in DOMAIN batch_dir : GlobMatches(f)}

Extracted == Len(extracted) >= 1

(* C1: extract_test_info returns a Record for every input text and no       *)
(* exception leaves it: once the file has been read and extraction has run, *)
(* no exception has ended the run and the Record is there.                  *)
C1_ExtractNeverRaises ==
    (pc \notin {"start", "read"} /\ test_files # <<>>) => (exc = "none" /\ Extracted)

(* C2: a second completed run on the same batch directory leaves every page *)
(* (detail pages and index.html) identical to what the first completed run  *)
(* left, whenever the two runs happen.                                      *)
C2_RerunIdentical ==
    (pc = "done" /\ run > 1 /\ prev_done) => output_dir = prev_output

Undated(dir) == [p \in DOMAIN dir |-> [title |-> dir[p].title, content |-> dir[p].content]]

(* C2 as amended: the pages of two completed runs on the same inputs are    *)
(* identical apart from the generation date of the footer, and identical    *)
(* altogether when both runs wrote their pages on one calendar day.         *)
C2_RerunIdenticalSameDay ==
    (pc = "done" /\ run > 1 /\ prev_done) =>
        /\ Undated(output_dir) = Undated(prev_output)
        /\ Cardinality(run_days \cup prev_days) = 1 => output_dir = prev_output

C2_Witness ==
    /\ pc = "done" /\ run > 1 /\ prev_done
    /\ Cardinality(run_days \cup prev_days) = 1
    /\ Len(tests) >= 1
    /\ now > 0
    /\ output_dir = prev_output

(* C3: when a run has completed, the pages written in it are one detail     *)
(* page <stem>.html per file matching test_*.md and one index.html: as many *)
(* writes as matching files plus one, no page written twice, no two files   *)
(* with one page, and no other page.                                        *)
C3_PagesWritten ==
    pc = "done" =>
        /\ Len(writes) = Cardinality(Matching) + 1
        /\ \A i, j \in 1..Len(writes) : i # j => writes[i] # writes[j]
        /\ {writes[i] : i \in 1..Len(writes)} =
               {SubSeq(f, 1, Len(f) - 2) \o <<".", "html">> : f \in Matching}
               \cup {<<"index", ".", "html">>}
        /\ \A f, g \in Matching : f # g => PageName(Stem(f)) # PageName(Stem(g))

C3_Witness ==
    /\ pc = "done"
    /\ {<<"test_", "a", ".", "md">>, <<"test_", "a", ".", "b", ".", "md">>} \subseteq Matching
    /\ Len(writes) = 3

(* C4: every Record extract_test_info returned has total_duration equal to  *)
(* the sum of the durations of its steps, 0 when it has no step, and so has *)
(* the Record that is rendered.                                             *)
TotalIsSum(r) ==
    /\ r["total_duration"] = SumDurations(r["steps"])
    /\ r["steps"] = <<>> => r["total_duration"] = 0

C4_TotalIsSum ==
    /\ \A i \in 1..Len(extracted) : TotalIsSum(extracted[i])
    /\ \A i \in 1..Len(tests) : TotalIsSum(tests[i])
    /\ pc = "write" => TotalIsSum(test_info)
    /\ \A i \in 1..Len(writes) :
           writes[i] # IndexName =>
               output_dir[writes[i]].content.total = FormatMinutes(SumDurations(tests[i]["steps"]))

C4_Witness ==
    /\ pc = "done"
    /\ Len(tests) = 1
    /\ Len(tests[1]["steps"]) = 2
    /\ tests[1]["total_duration"] = 400

(* C5: when the text is made of N complete step entries (name line, then a  *)
(* duration that is a number, then a result), the Record has N steps, in    *)
(* the order of the entries, the i-th with the name, the duration and the   *)
(* result of the i-th entry.                                                *)
Complete(e) == e.shape \in {"full", "noisy"} /\ FloatOk(e.tok)

Seconds(tok) ==
    CASE tok = <<"1", ".", "5">> -> 150
      [] tok = <<"2", ".", "5">> -> 250
      [] tok = <<".", "2", "5">> -> 25
      [] OTHER -> 300

C5_StepsInOrder ==
    \A i \in 1..Len(extracted) :
        LET es == FileOf(i).entries
        IN  (\A n \in 1..Len(es) : Complete(es[n])) =>
                extracted[i]["steps"] =
                    [n \in 1..Len(es) |->
                        [name |-> es[n].name, duration |-> Seconds(es[n].tok),
                         status |-> es[n].status]]

C5_Witness ==
    /\ Extracted
    /\ Len(FileOf(1).entries) = 2
    /\ \A n \in 1..2 : Complete(FileOf(1).entries[n])
    /\ FileOf(1).entries[1].shape = "noisy"
    /\ FileOf(1).entries[1].name # FileOf(1).entries[2].name
    /\ Len(extracted[1]["steps"]) = 2

(* C6: the status of a Record is PASS exactly when the size in bytes of its *)
(* source file exceeds 10,000.                                              *)
C6_StatusByBytes ==
    \A i \in 1..Len(tests) :
        tests[i]["status"] = "PASS" <=> ByteSize(FileOf(i)) > 10000

(* C7: the index page shows the length of the list as total, the number of  *)
(* PASS Records as passed, the number of the other Records as failed, and   *)
(* passed + failed = total.                                                 *)
C7_IndexCounts ==
    pc = "done" =>
        LET shown == output_dir[IndexName].content
        IN  /\ shown.total = Len(tests)
            /\ shown.passed = Cardinality({i \in 1..Len(tests) : tests[i]["status"] = "PASS"})
            /\ shown.failed = Cardinality({i \in 1..Len(tests) : tests[i]["status"] # "PASS"})
            /\ shown.passed + shown.failed = shown.total

C7_Witness ==
    /\ pc = "done"
    /\ output_dir[IndexName].content.passed = 1
    /\ output_dir[IndexName].content.failed = 1

(* C8: when the first json block of the text is invalid, the Record has no  *)
(* activity_details, the parse error does not leave extract_test_info, and  *)
(* the call ends as it would on the text without the block, with the same   *)
(* value for every other field.                                             *)
(* a dict without key k *)
Without(d, k) == [x \in (DOMAIN d) \ {k} |-> d[x]]

RemoveAt(s, i) == SubSeq(s, 1, i - 1) \o SubSeq(s, i + 1, Len(s))

FirstJsonInvalid(items) ==
    /\ FirstKind(items, 1, {"json"}) # 0
    /\ ~JsonValid(items[FirstKind(items, 1, {"json"})].v)

C8_InvalidJsonOmitted ==
    \A f \in DOMAIN batch_dir :
        (pc \notin {"start", "read"} /\ test_files = <<f>> /\ FirstJsonInvalid(batch_dir[f].items)) =>
            LET items == batch_dir[f].items
                other == extract_test_info(RemoveAt(items, FirstKind(items, 1, {"json"})))
            IN  /\ exc = other.exc
                /\ exc = "none" =>
                      /\ Extracted
                      /\ "activity_details" \notin DOMAIN extracted[1]
                      /\ Without(extracted[1], "activity_details")
                             = Without(other.info, "activity_details")

C8_Witness ==
    /\ Extracted
    /\ FirstJsonInvalid(FileOf(1).items)
    /\ "activity_details" \notin DOMAIN extracted[1]
    /\ "name" \in DOMAIN extracted[1]
    /\ "final_output" \in DOMAIN extracted[1]
    /\ Len(extracted[1]["steps"]) = 2

(* C9: on the index page and on the detail page alike, a key that is not in *)
(* its lookup table (test name, activity type, age group) is shown as the   *)
(* key itself, and a key that is in the table as its label.                 *)
C9_FallbackToKey ==
    \A i \in 1..Len(tests) :
        LET details == Get(tests[i], "activity_details", EmptyDict)
            type == Get(details, "activity_type", "")
            age == Get(details, "age_group", "")
            page == PageName(tests[i]["filename"])
        IN  /\ i <= Len(writes) =>
                  /\ output_dir[page].content.activity_type_heb = Get(ACTIVITY_TYPES_HEB, type, type)
                  /\ output_dir[page].content.age_group_heb = Get(AGE_GROUPS_HEB, age, age)
            /\ pc = "done" =>
                  /\ output_dir[IndexName].content.rows[i].activity_type_heb
                         = Get(ACTIVITY_TYPES_HEB, type, type)
                  /\ output_dir[IndexName].content.rows[i].age_group_heb
                         = Get(AGE_GROUPS_HEB, age, age)

(* C10: a Record is what extract_test_info returned, with no field added or *)
(* changed from then to the end of the run.                                 *)
C10_NeverMutated ==
    \A i \in 1..Len(tests) : tests[i] = extracted[i]

(* C10 as amended: main adds the fields filename and status to the dict     *)
(* extract_test_info returned, before it appends and renders it; no other   *)
(* field is added and none is changed, and from the append to the end of    *)
(* the run (the writing of the detail pages and of the index page included) *)
(* every Record of the list stays as it is.                                 *)
AddedByMain == {"filename", "status"}

C10_OnlyFilenameAndStatusAdded ==
    [][pc' # "start" =>
         /\ \A i \in 1..Len(tests) : i <= Len(tests') /\ tests'[i] = tests[i]
         /\ pc \in {"write", "index"} => tests' = tests
         /\ \A i \in 1..Len(tests') :
               /\ DOMAIN tests'[i] = DOMAIN extracted'[i] \cup AddedByMain
               /\ DOMAIN extracted'[i] \cap AddedByMain = {}
               /\ \A k \in DOMAIN extracted'[i] : tests'[i][k] = extracted'[i][k]]_vars

C10_Witness ==
    /\ pc = "done"
    /\ Len(tests) = 2
    /\ Len(writes) = 3
    /\ "name" \in DOMAIN tests[1]

(* C11: the files are processed in sorted order of their names: the pages   *)
(* written in a run are, in this order, the detail pages of the first files *)
(* of the sorted list, then index.html, written once and only after the     *)
(* detail page of every file; a run that fails at the k-th file ends with   *)
(* the detail pages of the k - 1 files before it written, no later file     *)
(* read or extracted, and no index.html written.                            *)
DetailPages(n) == [i \in 1..n |-> SubSeq(test_files[i], 1, Len(test_files[i]) - 2) \o <<".", "html">>]

C11_OrderAndAbort ==
    pc # "start" =>
        LET n == Len(test_files)
        IN  /\ {test_files[i] : i \in 1..n} = Matching
            /\ \A i, j \in 1..n : i < j => NameLess(test_files[i], test_files[j])
            /\ pc = "done" => writes = DetailPages(n) \o <<IndexName>>
            /\ pc # "done" =>
                  /\ Len(writes) <= n
                  /\ writes = DetailPages(Len(writes))
            /\ pc \in {"read", "annotate", "write"} => (idx <= n /\ Len(writes) = idx - 1)
            /\ pc = "index" => Len(writes) = n
            /\ pc = "aborted" =>
                  /\ writes = DetailPages(idx - 1)
                  /\ Len(extracted) <= idx /\ Len(tests) <= idx
                  /\ \A i \in 1..Len(writes) : writes[i] # IndexName

C11_Witness ==
    /\ pc = "aborted"
    /\ exc = "OSError"
    /\ Len(test_files) = 2
    /\ idx = 2
    /\ Len(writes) = 1
    /\ Len(tests) = 2

====
